---- MODULE Spec2Model ----
(***************************************************************************)
(* Model of the event dispatcher of go-libwayland (wayland.go): the proxy  *)
(* registry of a Display, the method cache, the reused scratch buffers and *)
(* the signature-driven argument decoder of the exported dispatcher        *)
(* callback.                                                               *)
(*                                                                         *)
(* Strings that the code manipulates byte by byte (event names, method and *)
(* field names, signatures) are sequences of one-character strings.        *)
(***************************************************************************)
EXTENDS Integers, Sequences, FiniteSets, TLC

VARIABLES
    hnd,        \* Display.hnd is non-nil (the connection is open)
    proxies,    \* Display.proxies: proxy pointer -> object
    methods,    \* Display.methods: methodKey -> reflect.Method
    callArgs,   \* Display.callArgs: the elements of the stored slice
    methName,   \* Display.methName: the backing array of the stored slice
    last,       \* what the most recent dispatcher call did (observation)
    hist,       \* most recent add/forget per proxy (observation, SpecRegistry)
    resolved,   \* (object type, name) pairs resolved so far (observation, SpecMemo)
    ended,      \* the ways the dispatcher calls so far ended (observation, SpecScratch)
    dec         \* input and result of one run of the decode loop (SpecDecode)

vars == <<hnd, proxies, methods, callArgs, methName, last, hist, resolved, ended, dec>>

(***************************************************************************)
(* Bounds of the model.                                                    *)
(***************************************************************************)
MaxHandle == 2      \* proxy pointers are 1..MaxHandle
MaxSigLen == 3      \* longest signature the decode specification draws

Handles == 1..MaxHandle

NoObj == [typ |-> "nil"]   \* the nil interface value a map miss yields

(***************************************************************************)
(* Bytes and names.                                                        *)
(***************************************************************************)
Lower == <<"a","b","c","d","e","f","g","h","i","j","k","l","m",
           "n","o","p","q","r","s","t","u","v","w","x","y","z">>
Upper == <<"A","B","C","D","E","F","G","H","I","J","K","L","M",
           "N","O","P","Q","R","S","T","U","V","W","X","Y","Z">>

\* unicode.ToUpper on one ASCII byte
ToUpper(c) ==
    IF \E k \in 1..26 : Lower[k] = c
    THEN Upper[CHOOSE k \in 1..26 : Lower[k] = c]
    ELSE c

\* wire names of events (wl_message.name)
N_done == <<"d","o","n","e">>
N_presented == <<"p","r","e","s","e","n","t","e","d">>
N_discarded == <<"d","i","s","c","a","r","d","e","d">>
N_sync_output == <<"s","y","n","c","_","o","u","t","p","u","t">>
N_preferred_buffer_scale ==
    <<"p","r","e","f","e","r","r","e","d","_","b","u","f","f","e","r","_",
      "s","c","a","l","e">>

\* names of Go methods of the internal representations
M_Done == <<"D","o","n","e">>
M_SyncOutput == <<"S","y","n","c","O","u","t","p","u","t">>
M_Presented == <<"P","r","e","s","e","n","t","e","d">>
M_Discarded == <<"D","i","s","c","a","r","d","e","d">>

\* names of the callback fields of the object types
On == <<"O","n">>
F_OnDone == On \o M_Done
F_OnSyncOutput == On \o M_SyncOutput
F_OnPresented == On \o M_Presented
F_OnDiscarded == On \o M_Discarded
F_OnGlobal == On \o <<"G","l","o","b","a","l">>
F_OnGlobalRemove == On \o <<"G","l","o","b","a","l","R","e","m","o","v","e">>
F_OnClock_id == On \o <<"C","l","o","c","k","_","i","d">>
F_OnPreferred_buffer_scale ==
    On \o <<"P","r","e","f","e","r","r","e","d","_","b","u","f","f","e","r",
            "_","s","c","a","l","e">>
F_OnFormat == On \o <<"F","o","r","m","a","t">>
F_OnRelease == On \o <<"R","e","l","e","a","s","e">>
F_OnPing == On \o <<"P","i","n","g">>
F_OnConfigure == On \o <<"C","o","n","f","i","g","u","r","e">>
F_OnClose == On \o <<"C","l","o","s","e">>
F_OnWm_capabilities ==
    On \o <<"W","m","_","c","a","p","a","b","i","l","i","t","i","e","s">>

(***************************************************************************)
(* The object types: their callback fields with the parameter types of the *)
(* function type, and the internal representation of the two types that    *)
(* implement internaler.                                                   *)
(***************************************************************************)
Types == {"Registry", "WpPresentation", "WpPresentationFeedback", "Compositor",
          "Surface", "Shm", "ShmPool", "Buffer", "XdgWmBase", "XdgSurface",
          "XdgToplevel", "XdgDecorationManager", "XdgToplevelDecoration",
          "WpViewporter", "WpViewport", "Callback"}

U7 == <<"uint32","uint32","uint32","uint32","uint32","uint32","uint32">>

\* the struct fields named On...: field name -> parameter types
Fields(typ) ==
    CASE typ = "Registry" ->
           (F_OnGlobal :> <<"uint32","string","uint32">>)
           @@ (F_OnGlobalRemove :> <<"uint32">>)
      [] typ = "WpPresentation" -> (F_OnClock_id :> <<"uint">>)
      [] typ = "WpPresentationFeedback" ->
           (F_OnSyncOutput :> <<"*Output">>) @@ (F_OnPresented :> U7)
           @@ (F_OnDiscarded :> <<>>)
      [] typ = "Surface" -> (F_OnPreferred_buffer_scale :> <<"int">>)
      [] typ = "Shm" -> (F_OnFormat :> <<"uint32">>)
      [] typ = "Buffer" -> (F_OnRelease :> <<>>)
      [] typ = "XdgWmBase" -> (F_OnPing :> <<"uint32">>)
      [] typ = "XdgSurface" -> (F_OnConfigure :> <<"uint32">>)
      [] typ = "XdgToplevel" ->
           (F_OnConfigure :> <<"int32","int32","[]uint32">>)
           @@ (F_OnClose :> <<>>) @@ (F_OnWm_capabilities :> <<"[]uint32">>)
      [] typ = "XdgToplevelDecoration" ->
           (F_OnConfigure :> <<"XdgToplevelDecorationMode">>)
      [] typ = "Callback" -> (F_OnDone :> <<"uint32">>)
      [] OTHER -> <<>>

IsInternalerNever(typ) == FALSE

\* obj.(internaler): the types with an internal() method
IsInternaler(typ) == typ \in {"Callback", "WpPresentationFeedback"}

\* reflect.TypeOf(inter.internal())
internal(typ) ==
    CASE typ = "Callback" -> "*callback"
      [] typ = "WpPresentationFeedback" -> "*wpPresentationFeedback"

\* the method set of an internal representation: method name -> the
\* parameter types of Method.Func, the receiver first
MethodSet(ityp) ==
    CASE ityp = "*callback" -> (M_Done :> <<"*callback","uint32">>)
      [] ityp = "*wpPresentationFeedback" ->
           (M_SyncOutput :> <<"*wpPresentationFeedback","*Output">>)
           @@ (M_Presented :> <<"*wpPresentationFeedback">> \o U7)
           @@ (M_Discarded :> <<"*wpPresentationFeedback">>)

\* the user callback a method of an internal representation calls through
UserField(mname) == On \o mname

OneShotNever(ityp, mname) == FALSE

\* the methods that remove the object's own proxy after the user callback
OneShot(ityp, mname) ==
    \/ ityp = "*callback" /\ mname = M_Done
    \/ ityp = "*wpPresentationFeedback" /\ mname \in {M_Presented, M_Discarded}

(***************************************************************************)
(* The registry: Display.add, Display.forget and the map index expression  *)
(* of the dispatcher.                                                      *)
(***************************************************************************)
addKeepsOld(prox, proxy, obj) ==
    [p \in DOMAIN prox \cup {proxy} |->
        IF p \in DOMAIN prox THEN prox[p] ELSE obj]

\* dsp.proxies[proxy] = obj
add(prox, proxy, obj) ==
    [p \in DOMAIN prox \cup {proxy} |-> IF p = proxy THEN obj ELSE prox[p]]

forgetAll(prox, proxy) == [p \in {} |-> NoObj]

forgetNothing(prox, proxy) == prox

\* delete(dsp.proxies, proxy)
forget(prox, proxy) == [p \in DOMAIN prox \ {proxy} |-> prox[p]]

\* dsp.proxies[target]: a missing key yields the nil interface value
lookup(prox, target) == IF target \in DOMAIN prox THEN prox[target] ELSE NoObj

(***************************************************************************)
(* Argument slots (union wl_argument) and decoded values.                  *)
(* A slot is [k, v]: a 32-bit word, a pointer to a C string, a pointer to  *)
(* a wl_array (v is the sequence of its 4-byte elements) or a null         *)
(* pointer.  Words stay below 2^31, where int32, uint32, int and uint hold *)
(* the same number.                                                        *)
(***************************************************************************)
Word(n) == [k |-> "word", v |-> n]
CStr(s) == [k |-> "cstr", v |-> s]
Array(a) == [k |-> "array", v |-> a]
Null == [k |-> "null", v |-> 0]
Garbage == [k |-> "garbage", v |-> 0]

\* unsafe.Add(args, idx * sizeof(union wl_argument)), idx counted from 0;
\* memory outside the message holds anything
slotAt(args, idx) ==
    IF idx + 1 \in DOMAIN args THEN args[idx + 1] ELSE Garbage

\* *(*int32)(arg), *(*uint32)(arg), *(*C.wl_fixed_t)(arg)
asWord(slot) ==
    CASE slot.k = "word" -> slot.v
      [] slot.k = "null" -> 0
      [] OTHER -> -1

GoVal(t, v) == [t |-> t, v |-> v]

IntKinds == {"int", "uint", "int32", "uint32", "wl_fixed_t",
             "XdgToplevelDecorationMode", "Output"}

\* reflect.Value.Convert from int32 or uint32: integer kinds convert to
\* integer kinds and to string, nothing else here
convertible(dst) == dst \in IntKinds \cup {"string"}

\* an integer converted to string is the one-rune string of that code point
convert(n, dst) ==
    IF dst = "string" THEN GoVal("string", <<"U+", n>>) ELSE GoVal(dst, n)

\* reflect.Type.Elem is defined for pointers and slices
hasElem(t) ==
    t \in {"[]uint32", "[]int32", "[]string", "*Output", "*callback",
           "*wpPresentationFeedback"}

Elem(t) ==
    CASE t = "[]uint32" -> "uint32"
      [] t = "[]int32" -> "int32"
      [] t = "[]string" -> "string"
      [] t = "*Output" -> "Output"
      [] t = "*callback" -> "callback"
      [] t = "*wpPresentationFeedback" -> "wpPresentationFeedback"

Digits == {"0","1","2","3","4","5","6","7","8","9"}
ArgTags == {"i", "u", "f", "s", "o", "a"}

Step(panic, push, read, adv) ==
    [panic |-> panic, push |-> push, read |-> read, adv |-> adv]

\* case 'i', 'u', 'o': read the word, convert it to the i-th parameter type
decodeInt(i, idx, slot, In) ==
    IF i >= Len(In) THEN Step("reflect: Func index out of bounds", <<>>, <<idx>>, FALSE)
    ELSE IF ~convertible(In[i + 1])
         THEN Step("reflect: value cannot be converted", <<>>, <<idx>>, FALSE)
         ELSE Step("none", <<convert(asWord(slot), In[i + 1])>>, <<idx>>, TRUE)

decodeStringStrict(idx, slot) ==
    IF slot.k = "cstr"
    THEN Step("none", <<GoVal("string", slot.v)>>, <<idx>>, TRUE)
    ELSE Step("nil pointer dereference", <<>>, <<idx>>, FALSE)

\* case 's': C.GoString of a null pointer is the empty string
decodeString(idx, slot) ==
    Step("none",
         << GoVal("string", CASE slot.k = "cstr" -> slot.v
                              [] slot.k = "null" -> <<>>
                              [] OTHER -> <<"?">>) >>,
         <<idx>>, TRUE)

\* case 'a': the element type comes from the i-th parameter type; arr.data
\* and arr.size are read through the pointer in the slot
decodeArray(i, idx, slot, In) ==
    IF i >= Len(In) THEN Step("reflect: Func index out of bounds", <<>>, <<idx>>, FALSE)
    ELSE IF ~hasElem(In[i + 1])
         THEN Step("reflect: Elem of invalid type", <<>>, <<idx>>, FALSE)
         ELSE IF Elem(In[i + 1]) \notin {"int32", "uint32"}
              THEN Step("unsupported array element type", <<>>, <<idx>>, FALSE)
              ELSE IF slot.k # "array"
                   THEN Step("nil pointer dereference", <<>>, <<idx>>, FALSE)
                   ELSE Step("none",
                             <<GoVal(IF Elem(In[i + 1]) = "int32"
                                     THEN "[]int32" ELSE "[]uint32", slot.v)>>,
                             <<idx>>, TRUE)

decodeTagSkipping(c, i, idx, slot, In) ==
    CASE c \in {"i", "u", "o"} -> decodeInt(i, idx, slot, In)
      [] c = "f" -> Step("none", <<GoVal("wl_fixed_t", asWord(slot))>>, <<idx>>, TRUE)
      [] c = "s" -> decodeString(idx, slot)
      [] c = "a" -> decodeArray(i, idx, slot, In)
      [] c \in {"n", "h"} -> Step("none", <<>>, <<>>, TRUE)
      [] OTHER -> Step("none", <<>>, <<>>, FALSE)

\* one iteration of the loop over the signature (the switch on c)
decodeTag(c, i, idx, slot, In) ==
    CASE c \in {"i", "u", "o"} -> decodeInt(i, idx, slot, In)
      [] c = "f" -> Step("none", <<GoVal("wl_fixed_t", asWord(slot))>>, <<idx>>, TRUE)
      [] c = "s" -> decodeString(idx, slot)
      [] c = "n" -> Step("n", <<>>, <<>>, FALSE)
      [] c = "a" -> decodeArray(i, idx, slot, In)
      [] c = "h" -> Step("h", <<>>, <<>>, FALSE)
      [] c = "?" -> Step("none", <<>>, <<>>, FALSE)
      [] c \in Digits -> Step("none", <<>>, <<>>, FALSE)
      [] OTHER -> Step("panic(c)", <<>>, <<>>, FALSE)

\* for _, c := range sig { ... }: the arguments built, the slots read and
\* the panic that ended the loop, if any
RECURSIVE decodeLoop(_, _, _, _, _, _, _, _)
decodeLoop(sig, pos, i, argOffset, args, In, built, reads) ==
    IF pos > Len(sig)
    THEN [panic |-> "none", callArgs |-> built, reads |-> reads]
    ELSE LET r == decodeTag(sig[pos], i, i + argOffset,
                            slotAt(args, i + argOffset), In)
         IN  IF r.panic # "none"
             THEN [panic |-> r.panic, callArgs |-> built,
                   reads |-> reads \o r.read]
             ELSE decodeLoop(sig, pos + 1, IF r.adv THEN i + 1 ELSE i,
                             argOffset, args, In,
                             built \o r.push, reads \o r.read)

\* reflect.Value.Call checks the argument count and that every argument is
\* assignable to its parameter
callPanic(passed, In) ==
    IF Len(passed) < Len(In) THEN "reflect: Call with too few input arguments"
    ELSE IF Len(passed) > Len(In)
         THEN "reflect: Call with too many input arguments"
         ELSE IF \E k \in 1..Len(In) : passed[k].t # In[k]
              THEN "reflect: Call using value as wrong type"
              ELSE "none"

argOffsetNone(hasRecv) == 0

\* i starts at 1 and argOffset at -1 when a receiver is prepended
argOffsetOf(hasRecv) == IF hasRecv THEN -1 ELSE 0

truncateNot(stored) == stored \o <<GoVal("stale", 0)>>

\* dsp.callArgs[:0] and callArgs[:0]
truncate(stored) == <<>>

\* lines 240-297 up to the call: recv is <<>> or <<the receiver value>>
decodeArgs(stored, recv, sig, args, In) ==
    decodeLoop(sig, 1, Len(recv), argOffsetOf(recv # <<>>), args, In,
               truncate(stored) \o recv, <<>>)

\* the decode loop followed by meth.Call(callArgs) and the store of the
\* truncated list: what was passed, what was read, what is stored after
decodeAndCall(stored, recv, sig, args, In) ==
    LET d == decodeArgs(stored, recv, sig, args, In)
        p == IF d.panic = "none" THEN callPanic(d.callArgs, In) ELSE d.panic
    IN  [panic |-> p, invoked |-> (p = "none"), passed |-> d.callArgs,
         reads |-> d.reads]

(***************************************************************************)
(* Inputs of the decode specification: every signature up to MaxSigLen     *)
(* over the tag alphabet, one slot per tag that occupies a slot on the     *)
(* wire, and parameter lists that match the signature or differ from it.   *)
(***************************************************************************)
SigAlphabet == {"i", "u", "f", "s", "o", "a", "n", "h", "?", "3", "x"}
SlotTags == ArgTags \cup {"n", "h"}

Sigs == UNION {[1..n -> SigAlphabet] : n \in 0..MaxSigLen}

isSlotTag(c) == c \in SlotTags
isArgTag(c) == c \in ArgTags

slotTags(sig) == SelectSeq(sig, isSlotTag)
argTags(sig) == SelectSeq(sig, isArgTag)

\* the values the transport may put in the k-th slot for tag c
SlotChoices(c, k) ==
    CASE c = "s" -> {Null, CStr([j \in 1..k |-> "x"])}
      [] c = "a" -> {Null, Array(<<k, k + 1>>)}
      [] c = "o" -> {Word(0), Word(k)}
      [] OTHER -> {Word(k), Word(10 + k)}

RECURSIVE Product(_)
Product(cs) ==
    IF cs = <<>> THEN {<<>>}
    ELSE {<<h>> \o t : h \in Head(cs), t \in Product(Tail(cs))}

ArgsFor(sig) ==
    LET st == slotTags(sig)
    IN  Product([k \in 1..Len(st) |-> SlotChoices(st[k], k)])

\* a parameter type that accepts what tag c decodes to (two variants)
ParamFor(c, v) ==
    CASE c = "i" -> IF v = 1 THEN "int" ELSE "int32"
      [] c = "u" -> IF v = 1 THEN "uint32" ELSE "uint"
      [] c = "o" -> IF v = 1 THEN "uint32" ELSE "*Output"
      [] c = "f" -> IF v = 1 THEN "wl_fixed_t" ELSE "int32"
      [] c = "s" -> "string"
      [] c = "a" -> IF v = 1 THEN "[]uint32" ELSE "[]int32"
      [] OTHER -> "uint32"

Exact(sig, v) ==
    LET st == slotTags(sig) IN [k \in 1..Len(st) |-> ParamFor(st[k], v)]

ParamLists(sig) ==
    UNION { { Exact(sig, v),
              Exact(sig, v) \o <<"uint32">>,
              IF Exact(sig, v) = <<>> THEN <<>>
              ELSE SubSeq(Exact(sig, v), 1, Len(Exact(sig, v)) - 1),
              IF Exact(sig, v) = <<>> THEN <<>>
              ELSE [Exact(sig, v) EXCEPT ![1] = "[]string"],
              IF Exact(sig, v) = <<>> THEN <<>>
              ELSE [Exact(sig, v) EXCEPT ![1] = "string"] } : v \in 1..2 }

Receivers == {<<>>, <<GoVal("*callback", 1)>>}

DecodeInput(r, sg, a, ps) ==
    [recv |-> r, sig |-> sg, args |-> a,
     In |-> [k \in 1..Len(r) |-> r[k].t] \o ps]

Idle == [panic |-> "idle"]
NoInput == [sig |-> <<>>]

(***************************************************************************)
(* Objects.  An object is [typ, hnd, cb]: its Go type, its proxy pointer   *)
(* and, per callback field, "nil" or a user function.                      *)
(***************************************************************************)
NewObj(typ, h, fns) == [typ |-> typ, hnd |-> h, cb |-> fns]

NilCallbacks(typ) == [f \in DOMAIN Fields(typ) |-> "nil"]

UserFns == {"nil", "fn"}

\* user functions that call back into the library while they run:
\* "fnSync" calls Display.Sync (a new Callback is added under a new proxy),
\* "fnDestroy" calls Destroy on another registered object
ReentrantFns == {"fnSync", "fnDestroy"}

\* the proxy the transport returns for the next constructor call
NewProxy(prox) == CHOOSE h \in Handles \ DOMAIN prox :
                      \A g \in Handles \ DOMAIN prox : h <= g

\* the registered objects other than self that have a Destroy method
Destroyable(prox, self) ==
    {h \in DOMAIN prox : h # self.hnd /\ prox[h].typ # "WpPresentationFeedback"}

\* the registry after the user function fn, called on behalf of self, ran
UserEffect(fn, prox, self) ==
    CASE fn = "fnSync" /\ Handles \ DOMAIN prox # {} ->
           add(prox, NewProxy(prox),
               [typ |-> "Callback", hnd |-> NewProxy(prox),
                cb |-> (F_OnDone :> "fn")])
      [] fn = "fnDestroy" /\ Destroyable(prox, self) # {} ->
           LET h == CHOOSE h \in Destroyable(prox, self) :
                        \A g \in Destroyable(prox, self) : h <= g
           IN  forget(prox, prox[h].hnd)
      [] OTHER -> prox

(***************************************************************************)
(* The dispatcher, step by step.                                           *)
(***************************************************************************)
isNilObjNever(obj) == FALSE

\* if obj == nil { panic("don't know this proxy") }
isNilObj(obj) == obj = NoObj

capitalizeNone(b) == b

capitalizeAll(b) == [k \in DOMAIN b |-> ToUpper(b[k])]

\* methNameB[0] = byte(unicode.ToUpper(rune(methNameB[0])))
capitalize(b) == [b EXCEPT ![1] = ToUpper(b[1])]

\* the backing array of dsp.methName after the name of n bytes was copied
\* into it: reused when its capacity suffices, replaced by a new one else
nameBuffer(buf, b) ==
    IF Len(buf) >= Len(b) THEN b \o SubSeq(buf, Len(b) + 1, Len(buf)) ELSE b

methodKey(ityp, name) == <<ityp, name>>

Method(ityp, name) == [typ |-> ityp, name |-> name, In |-> MethodSet(ityp)[name]]

\* typ.MethodByName(methName)
hasMethod(ityp, name) == name \in DOMAIN MethodSet(ityp)

cacheHitNever(cache, ityp, name) == FALSE

\* tmeth, ok := dsp.methods[methodKey{typ: typ, name: methName}]
cacheHit(cache, ityp, name) == methodKey(ityp, name) \in DOMAIN cache

\* a store whose key shares the bytes of the name buffer: the keys stored
\* before read as what the buffer holds now
cacheStoreAliased(cache, ityp, name) ==
    LET rk(k) == <<k[1], IF Len(k[2]) <= Len(name)
                         THEN SubSeq(name, 1, Len(k[2])) ELSE k[2]>>
        new == methodKey(ityp, name)
    IN  [q \in {rk(k) : k \in DOMAIN cache} \cup {new} |->
            IF q = new THEN Method(ityp, name)
            ELSE cache[CHOOSE k \in DOMAIN cache : rk(k) = q]]

cacheStoreOnly(cache, ityp, name) ==
    (methodKey(ityp, name) :> Method(ityp, name))

\* dsp.methods[methodKey{typ: typ, name: strings.Clone(methName)}] = tmeth
cacheStore(cache, ityp, name) ==
    (methodKey(ityp, name) :> Method(ityp, name)) @@ cache

\* reflect.ValueOf(obj).Elem().FieldByName("On" + methName).IsValid()
hasField(typ, name) == (On \o name) \in DOMAIN Fields(typ)

methodCallableFirst(obj, tmeth) ==
    [kind |-> "method", typ |-> tmeth.typ, name |-> tmeth.name, In |-> tmeth.In,
     fn |-> "func", recv |-> <<GoVal(internal(obj.typ), [obj EXCEPT !.hnd = 1])>>]

\* the resolved callable: the method's Func with its receiver, or the
\* function value held by the field
methodCallable(obj, tmeth) ==
    [kind |-> "method", typ |-> tmeth.typ, name |-> tmeth.name, In |-> tmeth.In,
     fn |-> "func", recv |-> <<GoVal(internal(obj.typ), obj)>>]

fieldCallable(obj, name) ==
    [kind |-> "field", typ |-> obj.typ, name |-> On \o name,
     In |-> Fields(obj.typ)[On \o name], fn |-> obj.cb[On \o name],
     recv |-> <<>>]

NoCallable ==
    [kind |-> "none", typ |-> "", name |-> <<>>, In |-> <<>>, fn |-> "nil",
     recv |-> <<>>]

isNilNever(meth) == FALSE

\* meth.IsNil()
isNil(meth) == meth.fn = "nil"

\* a call of a user callback: the field, its arguments and whether the
\* object's proxy was registered while it ran
UserCall(obj, field, args, prox) ==
    [hnd |-> obj.hnd, field |-> field, args |-> args,
     registered |-> obj.hnd \in DOMAIN prox]

\* the body of the called function.  A field callback is the user function
\* itself, with the effect it has on the registry.  The methods callback.Done, wpPresentationFeedback.SyncOutput,
\* Presented and Discarded call the object's On... field (a nil function
\* value panics) and, Done, Presented and Discarded, forget the proxy.
handlerBody(prox, meth, obj, passed) ==
    IF meth.kind = "field"
    THEN [panic |-> "none", proxies |-> UserEffect(meth.fn, prox, obj),
          user |-> <<UserCall(obj, meth.name, passed, prox)>>]
    ELSE LET self == passed[1].v
             field == UserField(meth.name)
         IN  IF self.cb[field] = "nil"
             THEN [panic |-> "nil pointer dereference", proxies |-> prox,
                   user |-> <<>>]
             ELSE [panic |-> "none",
                   proxies |-> IF OneShot(meth.typ, meth.name)
                               THEN forget(UserEffect(self.cb[field], prox, self),
                                           self.hnd)
                               ELSE UserEffect(self.cb[field], prox, self),
                   user |-> <<UserCall(self, field, Tail(passed), prox)>>]

\* the observation of a dispatcher call before anything happened; before
\* and after are the registry at entry and when the called function returned
Obs(target, ev, obj, prox) ==
    [target |-> target, name |-> ev.name, sig |-> ev.sig, args |-> ev.args,
     obj |-> obj, before |-> prox, after |-> prox, hit |-> FALSE, seen |-> FALSE, lookups |-> <<>>, callable |-> NoCallable,
     ret |-> "panic", panic |-> "none", invoked |-> FALSE, passed |-> <<>>,
     reads |-> <<>>, user |-> <<>>]

DisplayReadds(prox, cache, stored, buf, obs) ==
    [proxies |-> IF obs.obj = NoObj THEN prox ELSE add(prox, obs.target, obs.obj),
     methods |-> cache, callArgs |-> stored, methName |-> buf, last |-> obs]

Display(prox, cache, stored, buf, obs) ==
    [proxies |-> prox, methods |-> cache, callArgs |-> stored,
     methName |-> buf, last |-> obs]

\* lines 235-297: the nil check, the decode loop, the call, the store
dispatchCall(prox, cache, stored, buf, obs, obj, meth) ==
    IF isNil(meth)
    THEN Display(prox, cache, stored, buf,
                 [obs EXCEPT !.callable = meth, !.ret = "0"])
    ELSE LET d == decodeAndCall(stored, meth.recv, obs.sig, obs.args, meth.In)
             o == [obs EXCEPT !.callable = meth, !.passed = d.passed,
                              !.reads = d.reads]
         IN  IF ~d.invoked
             THEN Display(prox, cache, stored, buf, [o EXCEPT !.panic = d.panic])
             ELSE LET h == handlerBody(prox, meth, obj, d.passed)
                  IN  IF h.panic # "none"
                      THEN Display(h.proxies, cache, stored, buf,
                                   [o EXCEPT !.invoked = TRUE, !.panic = h.panic,
                                             !.user = h.user,
                                             !.after = h.proxies])
                      ELSE Display(h.proxies, cache, truncate(d.passed), buf,
                                   [o EXCEPT !.invoked = TRUE, !.ret = "0",
                                             !.user = h.user,
                                             !.after = h.proxies])

notFoundCached(prox, cache, stored, buf, o, what) ==
    Display(prox,
            IF what = "couldn't find method"
            THEN (methodKey(internal(o.obj.typ), capitalize(o.name)) :>
                     [typ |-> internal(o.obj.typ), name |-> capitalize(o.name),
                      In |-> <<>>]) @@ cache
            ELSE cache,
            stored, buf, [o EXCEPT !.panic = what])

notFoundIgnored(prox, cache, stored, buf, o, what) ==
    Display(prox, cache, stored, buf, [o EXCEPT !.ret = "0"])

\* panic(fmt.Sprintf("couldn't find method %q on %T", ...)) and
\* panic(fmt.Sprintf("couldn't find field %q on %T", ...))
notFound(prox, cache, stored, buf, o, what) ==
    Display(prox, cache, stored, buf, [o EXCEPT !.panic = what])

\* lines 212-234: resolve the callable through the internal representation
\* and the method cache, or through the field named "On" + methName
dispatchResolve(prox, cache, stored, buf, obs, obj, name) ==
    IF IsInternaler(obj.typ)
    THEN LET ityp == internal(obj.typ)
             hit == cacheHit(cache, ityp, name)
             o == [obs EXCEPT !.hit = hit,
                              !.lookups = IF hit THEN <<>> ELSE <<"MethodByName">>]
         IN  IF ~hit /\ ~hasMethod(ityp, name)
             THEN notFound(prox, cache, stored, buf, o, "couldn't find method")
             ELSE dispatchCall(prox,
                               IF hit THEN cache ELSE cacheStore(cache, ityp, name),
                               stored, buf, o, obj,
                               methodCallable(obj, IF hit
                                                   THEN cache[methodKey(ityp, name)]
                                                   ELSE Method(ityp, name)))
    ELSE LET o == [obs EXCEPT !.lookups = <<"FieldByName">>]
         IN  IF ~hasField(obj.typ, name)
             THEN notFound(prox, cache, stored, buf, o, "couldn't find field")
             ELSE dispatchCall(prox, cache, stored, buf, o, obj,
                               fieldCallable(obj, name))

dispatcherNameFirst(prox, cache, stored, buf, target, ev) ==
    LET obj == lookup(prox, target)
        obs == Obs(target, ev, obj, prox)
    IN  IF isNilObj(obj)
        THEN Display(prox, cache, stored, nameBuffer(buf, capitalize(ev.name)),
                     [obs EXCEPT !.panic = "don't know this proxy"])
        ELSE dispatchResolve(prox, cache, stored,
                             nameBuffer(buf, capitalize(ev.name)),
                             obs, obj, capitalize(ev.name))

\* func dispatcher(data, target, opcode, msg, args) C.int
dispatcher(prox, cache, stored, buf, target, ev) ==
    LET obj == lookup(prox, target)
        obs == Obs(target, ev, obj, prox)
    IN  IF isNilObj(obj)
        THEN Display(prox, cache, stored, buf,
                     [obs EXCEPT !.panic = "don't know this proxy"])
        ELSE IF Len(ev.name) = 0
             THEN Display(prox, cache, stored, buf,
                          [obs EXCEPT !.panic = "index out of range"])
             ELSE dispatchResolve(prox, cache, stored,
                                  nameBuffer(buf, capitalize(ev.name)),
                                  obs, obj, capitalize(ev.name))

(***************************************************************************)
(* The events the transport delivers in the model.                         *)
(***************************************************************************)
Event(name, sig, args) == [name |-> name, sig |-> sig, args |-> args]

EvDone == Event(N_done, <<"u">>, <<Word(7)>>)
EvPresented ==
    Event(N_presented, <<"u","u","u","u","u","u","u">>,
          <<Word(1), Word(2), Word(3), Word(4), Word(5), Word(6), Word(7)>>)
EvDiscarded == Event(N_discarded, <<>>, <<>>)
EvSyncOutput == Event(N_sync_output, <<"o">>, <<Word(5)>>)
EvPreferredBufferScale == Event(N_preferred_buffer_scale, <<"i">>, <<Word(2)>>)

Events == {EvDone, EvPresented, EvDiscarded, EvSyncOutput,
           EvPreferredBufferScale}

(***************************************************************************)
(* Initial state: Connect().                                               *)
(***************************************************************************)
NoHist == [op |-> "none", obj |-> NoObj, over |-> FALSE]

Init ==
    /\ hnd = TRUE
    /\ proxies = [p \in {} |-> NoObj]
    /\ methods = [k \in {} |-> NoObj]
    /\ callArgs = <<>>
    /\ methName = <<>>
    /\ last = Idle
    /\ hist = [h \in Handles |-> NoHist]
    /\ resolved = {}
    /\ ended = {}
    /\ dec = [inp |-> NoInput, out |-> Idle]

(***************************************************************************)
(* Actions of the program.                                                 *)
(***************************************************************************)
\* a constructor: the transport returns a proxy that is not registered, the
\* object is added under it
Register(obj) ==
    /\ hnd
    /\ last = Idle
    /\ proxies' = add(proxies, obj.hnd, obj)
    /\ last' = Idle
    /\ UNCHANGED <<hnd, methods, callArgs, methName, hist, resolved, ended, dec>>

\* Compositor.CreateSurface
CreateSurface ==
    \E h \in Handles \ DOMAIN proxies :
        Register(NewObj("Surface", h, NilCallbacks("Surface")))

\* WpPresentation.Feedback
Feedback ==
    \E h \in Handles \ DOMAIN proxies :
        Register(NewObj("WpPresentationFeedback", h,
                        NilCallbacks("WpPresentationFeedback")))

\* Surface.Frame(fn) and Display.Sync(fn)
Frame ==
    \E h \in Handles \ DOMAIN proxies, fn \in UserFns :
        Register(NewObj("Callback", h, (F_OnDone :> fn)))

\* the user assigns one of the public On... fields of a registered object
SetCallback ==
    /\ hnd
    /\ last = Idle
    /\ \E h \in DOMAIN proxies :
        \E f \in DOMAIN proxies[h].cb, fn \in UserFns :
            /\ proxies[h].cb[f] # fn
            /\ proxies' = [proxies EXCEPT ![h].cb[f] = fn]
            /\ last' = Idle
            /\ UNCHANGED <<hnd, methods, callArgs, methName, hist, resolved, ended, dec>>

\* the Destroy method of an object (WpPresentationFeedback has none)
Destroy ==
    /\ hnd
    /\ last = Idle
    /\ \E h \in DOMAIN proxies :
        /\ proxies[h].typ # "WpPresentationFeedback"
        /\ proxies' = forget(proxies, proxies[h].hnd)
        /\ last' = Idle
        /\ UNCHANGED <<hnd, methods, callArgs, methName, hist, resolved, ended, dec>>

\* the transport's event loop calls the dispatcher for one event
Dispatch ==
    /\ hnd
    /\ last = Idle
    /\ \E target \in Handles, ev \in Events :
        \E r \in {dispatcher(proxies, methods, callArgs, methName, target, ev)} :
            /\ proxies' = r.proxies
            /\ methods' = r.methods
            /\ callArgs' = r.callArgs
            /\ methName' = r.methName
            /\ last' = r.last
            /\ UNCHANGED <<hnd, hist, resolved, ended, dec>>

\* Dispatch, with the record of the pairs resolved so far kept
DispatchTracked ==
    /\ hnd
    /\ last = Idle
    /\ \E target \in Handles, ev \in Events :
        \E r \in {dispatcher(proxies, methods, callArgs, methName, target, ev)} :
            LET pair == <<r.last.obj.typ, capitalize(ev.name)>>
            IN  /\ proxies' = r.proxies
                /\ methods' = r.methods
                /\ callArgs' = r.callArgs
                /\ methName' = r.methName
                /\ last' = [r.last EXCEPT !.seen = pair \in resolved]
                /\ resolved' = IF r.last.callable.kind # "none"
                               THEN resolved \cup {pair} ELSE resolved
                /\ UNCHANGED <<hnd, hist, ended, dec>>

\* the dispatcher call is over (it returned 0, or its panic was recovered
\* above the event loop): control is back in the program
Return ==
    /\ last # Idle
    /\ last' = Idle
    /\ UNCHANGED <<hnd, proxies, methods, callArgs, methName, hist, resolved, ended, dec>>

\* Display.Disconnect
Disconnect ==
    /\ hnd
    /\ last = Idle
    /\ hnd' = FALSE
    /\ last' = Idle
    /\ UNCHANGED <<proxies, methods, callArgs, methName, hist, resolved, ended, dec>>

Next ==
    \/ CreateSurface
    \/ Feedback
    \/ Frame
    \/ SetCallback
    \/ Destroy
    \/ Dispatch
    \/ Return
    \/ Disconnect

Spec == Init /\ [][Next]_vars

NextMemo ==
    \/ CreateSurface
    \/ Feedback
    \/ Frame
    \/ SetCallback
    \/ Destroy
    \/ DispatchTracked
    \/ Return
    \/ Disconnect

SpecMemo == Init /\ [][NextMemo]_vars

(***************************************************************************)
(* The registry alone: any sequence of add and forget calls.               *)
(***************************************************************************)
RegObjects ==
    { NewObj(typ, h, NilCallbacks(typ)) :
        typ \in {"Shm", "Buffer", "XdgWmBase"}, h \in Handles } \cup
    { NewObj("Callback", h, (F_OnDone :> fn)) : h \in Handles, fn \in UserFns }

RegAdd ==
    \E h \in Handles, obj \in RegObjects :
        /\ proxies' = add(proxies, h, obj)
        /\ hist' = [hist EXCEPT ![h] = [op |-> "add", obj |-> obj,
                                      over |-> h \in DOMAIN proxies]]
        /\ UNCHANGED <<hnd, methods, callArgs, methName, last, resolved, ended, dec>>

RegForget ==
    \E h \in Handles :
        /\ proxies' = forget(proxies, h)
        /\ hist' = [hist EXCEPT ![h] = [op |-> "forget", obj |-> NoObj,
                                      over |-> h \in DOMAIN proxies]]
        /\ UNCHANGED <<hnd, methods, callArgs, methName, last, resolved, ended, dec>>

NextRegistry == RegAdd \/ RegForget

SpecRegistry == Init /\ [][NextRegistry]_vars

(***************************************************************************)
(* The decode loop alone, on one drawn input.                              *)
(***************************************************************************)
InitDecode ==
    /\ hnd = TRUE
    /\ proxies = [p \in {} |-> NoObj]
    /\ methods = [k \in {} |-> NoObj]
    /\ callArgs = <<>>
    /\ methName = <<>>
    /\ last = Idle
    /\ hist = [h \in Handles |-> NoHist]
    /\ resolved = {}
    /\ ended = {}
    /\ \E sg \in Sigs :
          \E r \in Receivers, a \in ArgsFor(sg), ps \in ParamLists(sg) :
              dec = [inp |-> DecodeInput(r, sg, a, ps), out |-> Idle]

Decode ==
    /\ dec.out = Idle
    /\ LET r == decodeAndCall(callArgs, dec.inp.recv, dec.inp.sig,
                              dec.inp.args, dec.inp.In)
       IN  /\ dec' = [dec EXCEPT !.out = r]
           /\ callArgs' = IF r.invoked THEN truncate(r.passed) ELSE callArgs
    /\ UNCHANGED <<hnd, proxies, methods, methName, last, hist, resolved, ended>>

NextDecode == Decode

SpecDecode == InitDecode /\ [][NextDecode]_vars

(***************************************************************************)
(* Properties.                                                             *)
(***************************************************************************)
Dispatched == last # Idle
Decoded == dec.out # Idle

\* C1: after any sequence of add and forget calls, a lookup of a proxy
\* yields the object of the most recent add when no forget followed it, and
\* nothing when the proxy was never added or was forgotten last; an add on
\* a registered proxy replaces the binding.
Thm_C1 ==
    \A h \in Handles :
        lookup(proxies, h) = IF hist[h].op = "add" THEN hist[h].obj ELSE NoObj

\* an add replaced an existing binding, and another proxy was forgotten
\* while it was registered
Wit_C1 ==
    \E h, g \in Handles :
        /\ hist[h].op = "add" /\ hist[h].over
        /\ lookup(proxies, h) = hist[h].obj
        /\ hist[g].op = "forget" /\ hist[g].over
        /\ lookup(proxies, g) = NoObj

\* C2: a message whose target is not in the registry makes the dispatcher
\* panic; it does not return 0 and calls no handler.
Thm_C2 ==
    (Dispatched /\ last.obj = NoObj) =>
        /\ last.ret = "panic"
        /\ last.panic = "don't know this proxy"
        /\ ~last.invoked
        /\ last.user = <<>>

\* a message for a proxy that a one-shot event removed before
Wit_C2 ==
    /\ Dispatched
    /\ last.obj = NoObj
    /\ last.ret = "panic"
    /\ DOMAIN methods # {}
    /\ DOMAIN proxies = {}

\* the user callback that the resolved callable stands for is unset
CallbackUnset ==
    /\ Dispatched
    /\ last.callable.kind # "none"
    /\ IF last.callable.kind = "field"
       THEN last.callable.fn = "nil"
       ELSE last.obj.cb[UserField(last.callable.name)] = "nil"

\* C3: a dispatch whose callback is unset returns 0, calls nothing and
\* does not panic, for field-callback and for delegated objects.
Claim_C3 ==
    CallbackUnset =>
        /\ last.ret = "0"
        /\ last.panic = "none"
        /\ last.user = <<>>

\* the name of the message does not resolve on the target object
Unresolvable ==
    /\ Dispatched
    /\ last.obj # NoObj
    /\ Len(last.name) > 0
    /\ IF IsInternaler(last.obj.typ)
       THEN capitalize(last.name) \notin DOMAIN MethodSet(internal(last.obj.typ))
       ELSE (On \o capitalize(last.name)) \notin DOMAIN Fields(last.obj.typ)

\* C4: a name that is no method of the internal representation, or no
\* On... field of a field-callback object, makes the dispatcher panic and
\* no handler is called.
Thm_C4 ==
    Unresolvable =>
        /\ last.ret = "panic"
        /\ last.panic = IF IsInternaler(last.obj.typ)
                        THEN "couldn't find method" ELSE "couldn't find field"
        /\ ~last.invoked
        /\ last.user = <<>>
        /\ last.callable = NoCallable

\* both kinds were seen: here a delegated object got a name it has no
\* method for, after a field-callback lookup had failed and grown the buffer
Wit_C4 ==
    /\ Unresolvable
    /\ IsInternaler(last.obj.typ)
    /\ last.panic = "couldn't find method"
    /\ last.name = N_done
    /\ Len(methName) = Len(N_preferred_buffer_scale)

Wit_C4_field ==
    /\ Unresolvable
    /\ last.obj.typ = "Surface"
    /\ last.panic = "couldn't find field"

Wit_C5_field ==
    /\ Dispatched
    /\ last.seen
    /\ last.obj.typ = "Surface"
    /\ last.lookups = <<"FieldByName">>
    /\ last.invoked

(***************************************************************************)
(* Properties of the decode loop (SpecDecode).                             *)
(***************************************************************************)
CallPanics == {"reflect: Call with too few input arguments",
               "reflect: Call with too many input arguments",
               "reflect: Call using value as wrong type"}

Supported(sig) == \A p \in DOMAIN sig : sig[p] \in ArgTags \cup {"?"} \cup Digits

\* the loop ran to its end: the handler was called, or Call refused
DecodeCompleted == dec.out.invoked \/ dec.out.panic \in CallPanics

RecvTypes == [k \in DOMAIN dec.inp.recv |-> dec.inp.recv[k].t]

\* the sequence of positions of sig that hold a tag occupying a slot
SlotPositions(sig) ==
    LET isSlot(p) == sig[p] \in SlotTags
    IN  SelectSeq([p \in DOMAIN sig |-> p], isSlot)

\* the value that tag c yields from a slot, for a parameter of type t
Payload(c, slot, t) ==
    CASE c = "s" -> IF slot.k = "null" THEN <<>> ELSE slot.v
      [] c \in {"i", "u", "o"} /\ t = "string" -> <<"U+", slot.v>>
      [] OTHER -> slot.v

\* the handler's parameters are those the signature calls for and no array
\* pointer is null
WellFormed ==
    /\ dec.inp.In = RecvTypes \o Exact(dec.inp.sig, 1)
    /\ \A k \in DOMAIN dec.inp.args :
           slotTags(dec.inp.sig)[k] = "a" => dec.inp.args[k] # Null

\* C6: for a signature of supported tags, a completed decode has built one
\* argument per tag other than '?' and digits, in order; the k-th such tag
\* (from 0) read slot k and nothing else was read; a prepended receiver
\* does not shift the slots.  With parameters that match the signature the
\* decode completes and the handler is called.
Thm_C6 ==
    (Decoded /\ Supported(dec.inp.sig)) =>
        LET tags == argTags(dec.inp.sig)
            n == Len(tags)
            r == Len(dec.inp.recv)
            out == dec.out
        IN  /\ DecodeCompleted =>
                /\ Len(out.passed) = r + n
                /\ SubSeq(out.passed, 1, r) = dec.inp.recv
                /\ out.reads = [k \in 1..n |-> k - 1]
                /\ \A k \in 1..n :
                       /\ out.passed[r + k].v =
                              Payload(tags[k], dec.inp.args[k], out.passed[r + k].t)
                       /\ tags[k] \in {"i", "u", "o"} =>
                              out.passed[r + k].t = dec.inp.In[r + k]
                       /\ tags[k] = "f" => out.passed[r + k].t = "wl_fixed_t"
                       /\ tags[k] = "s" => out.passed[r + k].t = "string"
            /\ WellFormed => out.invoked

\* a delegated call with an integer, a '?' and a string: two arguments
\* after the receiver, read from slots 0 and 1
Wit_C6 ==
    /\ Decoded
    /\ dec.inp.sig = <<"i", "?", "s">>
    /\ dec.inp.recv # <<>>
    /\ dec.out.invoked
    /\ dec.out.reads = <<0, 1>>
    /\ Len(dec.out.passed) = 3

Unsupp(c) == c \notin ArgTags \cup {"?"} \cup Digits

HasUnsupported == Decoded /\ \E p \in DOMAIN dec.inp.sig : Unsupp(dec.inp.sig[p])

FirstBad ==
    CHOOSE p \in DOMAIN dec.inp.sig :
        /\ Unsupp(dec.inp.sig[p])
        /\ \A q \in 1..(p - 1) : ~Unsupp(dec.inp.sig[q])

TagPanic(c) == IF c \in {"n", "h"} THEN c ELSE "panic(c)"

\* C7: with an unsupported tag in the signature the handler is never
\* called and the loop ends in a panic; no slot at or after that tag is
\* read; when the tags before it decode, the panic is that tag's.
Thm_C7 ==
    HasUnsupported =>
        LET before == argTags(SubSeq(dec.inp.sig, 1, FirstBad - 1))
            r == Len(dec.inp.recv)
            out == dec.out
        IN  /\ ~out.invoked
            /\ out.panic \notin {"none"} \cup CallPanics
            /\ Len(out.reads) <= Len(before)
            /\ \A k \in DOMAIN out.reads : out.reads[k] = k - 1
            /\ WellFormed =>
                   /\ out.panic = TagPanic(dec.inp.sig[FirstBad])
                   /\ Len(out.passed) = r + Len(before)

\* 'n' between two supported tags: the panic is at 'n', after one argument
Wit_C7 ==
    /\ HasUnsupported
    /\ dec.inp.sig = <<"u", "n", "s">>
    /\ dec.out.panic = "n"
    /\ dec.out.reads = <<0>>
    /\ ~dec.out.invoked

\* every null pointer and zero object id sits in a slot whose tag is
\* preceded by '?'
NullsAreNullable ==
    LET pos == SlotPositions(dec.inp.sig)
    IN  \A k \in DOMAIN dec.inp.args :
            dec.inp.args[k] \in {Null, Word(0)} =>
                /\ pos[k] > 1
                /\ dec.inp.sig[pos[k] - 1] = "?"

\* C8: a null or zero value in the slot of a tag preceded by '?' is
\* tolerated, for strings, object references and arrays: no panic, and the
\* handler is called.
Claim_C8 ==
    ( /\ Decoded
      /\ Supported(dec.inp.sig)
      /\ dec.inp.In = RecvTypes \o Exact(dec.inp.sig, 1)
      /\ NullsAreNullable )
    => (dec.out.invoked /\ dec.out.panic = "none")

C9Input ==
    /\ Decoded
    /\ dec.inp.sig = <<"?", "s">>
    /\ dec.inp.args = <<Null>>

\* C9: signature "?s" with a null string slot decodes to exactly one
\* argument, the empty string, without a panic, and a handler that takes
\* one string is called with it.
Thm_C9 ==
    C9Input =>
        LET r == Len(dec.inp.recv)
            out == dec.out
        IN  /\ out.panic \in {"none"} \cup CallPanics
            /\ SubSeq(out.passed, r + 1, Len(out.passed)) = <<GoVal("string", <<>>)>>
            /\ out.reads = <<0>>
            /\ dec.inp.In = RecvTypes \o <<"string">> => out.invoked

Wit_C9 ==
    /\ C9Input
    /\ dec.inp.recv = <<>>
    /\ dec.inp.In = <<"string">>
    /\ dec.out.invoked
    /\ dec.out.passed = <<GoVal("string", <<>>)>>

(***************************************************************************)
(* The end-to-end example of the Surface.                                  *)
(***************************************************************************)
\* the field name the example of the specification gives
F_OnPreferredBufferScale ==
    On \o <<"P","r","e","f","e","r","r","e","d","B","u","f","f","e","r",
            "S","c","a","l","e">>

C10Case ==
    /\ Dispatched
    /\ last.obj.typ = "Surface"
    /\ last.name = N_preferred_buffer_scale
    /\ last.sig = <<"i">>
    /\ last.args = <<Word(2)>>
    /\ \A f \in DOMAIN last.obj.cb : last.obj.cb[f] = "fn"

\* C10 as stated: the message preferred_buffer_scale, signature "i", slot
\* value 2, to a registered Surface dispatches to the field
\* OnPreferredBufferScale and calls it with the single argument 2.
Claim_C10 ==
    C10Case =>
        /\ last.callable.name = F_OnPreferredBufferScale
        /\ last.user = <<[hnd |-> last.target, field |-> F_OnPreferredBufferScale,
                          args |-> <<GoVal("int", 2)>>, registered |-> TRUE]>>

\* C10, amended: the message dispatches to the Surface field named
\* OnPreferred_buffer_scale ("On" and the wire name with its first byte in
\* upper case) and calls it with the single argument 2.
Thm_C10 ==
    C10Case =>
        /\ last.callable.kind = "field"
        /\ last.callable.name = F_OnPreferred_buffer_scale
        /\ last.lookups = <<"FieldByName">>
        /\ last.ret = "0"
        /\ last.invoked
        /\ last.passed = <<GoVal("int", 2)>>
        /\ last.user = <<[hnd |-> last.target, field |-> F_OnPreferred_buffer_scale,
                          args |-> <<GoVal("int", 2)>>, registered |-> TRUE]>>

Wit_C10 ==
    /\ C10Case
    /\ last.target = 1
    /\ last.invoked
    /\ last.ret = "0"

(***************************************************************************)
(* The end-to-end example of the presentation feedback.                    *)
(***************************************************************************)
SevenU == <<"u", "u", "u", "u", "u", "u", "u">>

C11Case ==
    /\ Dispatched
    /\ last.obj.typ = "WpPresentationFeedback"
    /\ last.name = N_presented
    /\ last.sig = SevenU
    /\ last.obj.cb[F_OnPresented] = "fn"

\* the seven slot values as uint32, in signature order
C11Values == [k \in 1..7 |-> GoVal("uint32", last.args[k].v)]

\* C11: the message presented, signature "uuuuuuu", to a registered
\* WpPresentationFeedback with OnPresented set calls the method Presented
\* with the internal representation as receiver followed by the seven slot
\* values in order, OnPresented gets the same seven values in that order,
\* and when the dispatcher returns the proxy is no longer registered.
Thm_C11 ==
    C11Case =>
        /\ last.callable.kind = "method"
        /\ last.callable.typ = "*wpPresentationFeedback"
        /\ last.callable.name = M_Presented
        /\ last.invoked
        /\ last.passed =
               <<GoVal("*wpPresentationFeedback", last.obj)>> \o C11Values
        /\ last.reads = <<0, 1, 2, 3, 4, 5, 6>>
        /\ last.user = <<[hnd |-> last.target, field |-> F_OnPresented,
                          args |-> C11Values, registered |-> TRUE]>>
        /\ last.ret = "0"
        /\ last.target \notin DOMAIN proxies

\* presented reached a feedback object while another object was registered:
\* the feedback proxy is gone, the other one stays
Wit_C11 ==
    /\ C11Case
    /\ last.ret = "0"
    /\ last.target = 2
    /\ DOMAIN proxies = {1}
    /\ last.user[1].args[7] = GoVal("uint32", 7)

(***************************************************************************)
(* Arity and type agreement between the signature and the handler.         *)
(***************************************************************************)
\* the parameter types that can take what tag c carries on the wire: an
\* integer, a fixed-point number, a string, an object id, an array of
\* 4-byte integers
Accepts(c) ==
    CASE c \in {"i", "u"} -> IntKinds
      [] c = "o" -> IntKinds \cup {"*Output"}
      [] c = "f" -> {"wl_fixed_t"}
      [] c = "s" -> {"string"}
      [] c = "a" -> {"[]int32", "[]uint32"}
      [] OTHER -> {}

\* the handler's parameters (the receiver left out)
Params == SubSeq(dec.inp.In, Len(dec.inp.recv) + 1, Len(dec.inp.In))

\* the signature and the handler disagree in the number of arguments or in
\* the type of one of them
Mismatch ==
    LET tags == argTags(dec.inp.sig)
    IN  \/ Len(tags) # Len(Params)
        \/ \E k \in DOMAIN tags : Params[k] \notin Accepts(tags[k])

\* C12: when the number of argument tags differs from the number of
\* parameters of the handler, or a tag's value does not fit the type of its
\* parameter, the dispatch ends in a panic and the handler is not called.
Claim_C12 ==
    (Decoded /\ Mismatch) =>
        /\ ~dec.out.invoked
        /\ dec.out.panic # "none"

(***************************************************************************)
(* Handlers that call back into the library (SpecReentrant): the user      *)
(* functions create and destroy objects while the dispatcher is running.   *)
(***************************************************************************)
\* Surface.Frame(fn) and Display.Sync(fn) with a function that calls back
FrameReentrant ==
    \E h \in Handles \ DOMAIN proxies, fn \in ReentrantFns :
        Register(NewObj("Callback", h, (F_OnDone :> fn)))

\* the fields that get a function that calls back
ReentrantFields == {F_OnPresented, F_OnPreferred_buffer_scale}

\* the user assigns a function that calls back to an unset field
SetCallbackReentrant ==
    /\ hnd
    /\ last = Idle
    /\ \E h \in DOMAIN proxies :
        \E f \in DOMAIN proxies[h].cb \cap ReentrantFields, fn \in ReentrantFns :
            /\ proxies[h].cb[f] = "nil"
            /\ proxies' = [proxies EXCEPT ![h].cb[f] = fn]
            /\ last' = Idle
            /\ UNCHANGED <<hnd, methods, callArgs, methName, hist, resolved, ended, dec>>

NextReentrant ==
    \/ CreateSurface
    \/ Feedback
    \/ FrameReentrant
    \/ SetCallbackReentrant
    \/ Destroy
    \/ Dispatch
    \/ Return

SpecReentrant == Init /\ [][NextReentrant]_vars

\* C13: once the handler was called for a message, the dispatcher does not
\* touch the registry again: the registry at the end of the dispatch is the
\* registry as the handler left it, with the handles it removed (its own,
\* others) absent and the handles it added present.
Thm_C13 ==
    (Dispatched /\ last.invoked) => proxies = last.after

\* a one-shot callback whose user function created a new object: its own
\* proxy is gone and one that was not registered before is there
Wit_C13 ==
    /\ Dispatched
    /\ last.invoked
    /\ last.ret = "0"
    /\ last.obj.typ = "Callback"
    /\ last.target \in DOMAIN last.before
    /\ last.target \notin DOMAIN proxies
    /\ \E h \in DOMAIN proxies : h \notin DOMAIN last.before

\* a handler whose user function destroyed another object: that proxy is
\* gone, the target stays
Wit_C13_destroy ==
    /\ Dispatched
    /\ last.invoked
    /\ last.ret = "0"
    /\ last.obj.typ = "Surface"
    /\ last.target \in DOMAIN proxies
    /\ \E h \in DOMAIN last.before : h \notin DOMAIN proxies

(***************************************************************************)
(* Teardown of the connection.                                             *)
(***************************************************************************)
\* C14: after Disconnect no proxy that was registered on the Display is
\* still in its registry.
Claim_C14 ==
    ~hnd => DOMAIN proxies = {}

(***************************************************************************)
(* The method cache.                                                       *)
(***************************************************************************)
\* every entry is the method a lookup of its name on its type returns
CacheTrue ==
    \A k \in DOMAIN methods :
        /\ hasMethod(k[1], k[2])
        /\ methods[k] = Method(k[1], k[2])

\* a step keeps every entry with its value
CacheKept ==
    \A k \in DOMAIN methods :
        /\ k \in DOMAIN methods'
        /\ methods'[k] = methods[k]

\* C15: the method cache only grows: no add, forget, Destroy or dispatch,
\* returning or panicking, removes an entry or changes its value, and every
\* entry is the method that MethodByName returns for its key.
Thm_C15 == []CacheTrue /\ [][CacheKept]_vars

\* two entries of two types are in the cache after both objects are gone
\* and a dispatch to one of the forgotten proxies panicked
Wit_C15 ==
    /\ methodKey("*callback", M_Done) \in DOMAIN methods
    /\ methodKey("*wpPresentationFeedback", M_Presented) \in DOMAIN methods
    /\ DOMAIN proxies = {}
    /\ Dispatched
    /\ last.panic = "don't know this proxy"

(***************************************************************************)
(* The reused argument list (SpecScratch): dispatches that return, that    *)
(* return early for an unset callback, that panic while decoding and that  *)
(* panic inside the handler, in any order.                                 *)
(***************************************************************************)
\* "done" with a signature whose second tag the decoder does not support:
\* the loop panics after one argument was appended
EvDoneUnsupported == Event(N_done, <<"u", "n">>, <<Word(7), Word(8)>>)

ScratchEvents == Events \cup {EvDoneUnsupported}

\* the way a dispatcher call ended
Ending(obs) ==
    CASE obs.ret = "0" /\ obs.invoked -> "return"
      [] obs.ret = "0" /\ ~obs.invoked -> "unset"
      [] obs.ret # "0" /\ obs.invoked -> "handler panic"
      [] obs.ret # "0" /\ ~obs.invoked /\ obs.callable.kind # "none" -> "decode panic"
      [] OTHER -> "resolve panic"

\* Dispatch, with the record of the ways the calls so far ended kept
DispatchScratch ==
    /\ hnd
    /\ last = Idle
    /\ \E target \in Handles, ev \in ScratchEvents :
        \E r \in {dispatcher(proxies, methods, callArgs, methName, target, ev)} :
            /\ proxies' = r.proxies
            /\ methods' = r.methods
            /\ callArgs' = r.callArgs
            /\ methName' = r.methName
            /\ last' = r.last
            /\ ended' = ended \cup {Ending(r.last)}
            /\ UNCHANGED <<hnd, hist, resolved, dec>>

NextScratch ==
    \/ CreateSurface
    \/ Frame
    \/ SetCallback
    \/ DispatchScratch
    \/ Return

SpecScratch == Init /\ [][NextScratch]_vars

\* the list built in the dispatch holds the receiver, if any, and then one
\* value per argument tag decoded from the slots of this message
OnlyCurrent ==
    LET r == Len(last.callable.recv)
        tags == argTags(last.sig)
        n == Len(last.passed) - r
    IN  /\ n >= 0
        /\ n <= Len(tags)
        /\ SubSeq(last.passed, 1, r) = last.callable.recv
        /\ \A k \in 1..n :
               last.passed[r + k].v =
                   Payload(tags[k], last.args[k], last.passed[r + k].t)
        /\ last.invoked => n = Len(tags)

\* C16: the list stored on the Display has length 0 between dispatches, and
\* in every dispatch that gets to build the argument list the list holds
\* the receiver (delegated dispatch) and the values decoded from the
\* current message only, however the dispatches before it ended.
Thm_C16 ==
    /\ Len(callArgs) = 0
    /\ (Dispatched /\ last.callable.kind # "none" /\ ~isNil(last.callable))
           => OnlyCurrent

\* a delegated dispatch that returned after dispatches that ended in each
\* of the other ways
Wit_C16 ==
    /\ Dispatched
    /\ last.callable.kind = "method"
    /\ last.invoked
    /\ last.ret = "0"
    /\ Len(last.passed) = 2
    /\ {"return", "unset", "decode panic", "handler panic"} \subseteq ended

(***************************************************************************)
(* The name of the handler.                                                *)
(***************************************************************************)
C17Case ==
    /\ Dispatched
    /\ last.obj # NoObj
    /\ Len(last.name) > 0

\* the wire name with its first byte in upper case, the rest as it is
HandlerName == <<ToUpper(last.name[1])>> \o Tail(last.name)

\* C17: the name looked up is the wire name with only its first byte
\* upper-cased, underscores and the letters after them unchanged: a
\* delegated dispatch resolves exactly when the internal representation has
\* a method of that name, and to that method; a field-callback dispatch
\* resolves exactly when the object has a field named "On" followed by that
\* name, and to that field.
Thm_C17 ==
    C17Case =>
        /\ SubSeq(methName, 1, Len(last.name)) = HandlerName
        /\ IF IsInternaler(last.obj.typ)
           THEN LET ms == MethodSet(internal(last.obj.typ))
                IN  /\ last.callable.kind = "method" <=> HandlerName \in DOMAIN ms
                    /\ last.callable.kind \in {"method", "none"}
                    /\ last.callable.kind = "method" =>
                           /\ last.callable.name = HandlerName
                           /\ last.callable.In = ms[HandlerName]
           ELSE LET fs == Fields(last.obj.typ)
                IN  /\ last.callable.kind = "field" <=>
                           (On \o HandlerName) \in DOMAIN fs
                    /\ last.callable.kind \in {"field", "none"}
                    /\ last.callable.kind = "field" =>
                           /\ last.callable.name = On \o HandlerName
                           /\ last.callable.In = fs[On \o HandlerName]

\* sync_output for a feedback object: the name looked up is Sync_output,
\* which is not the method SyncOutput
Wit_C17 ==
    /\ C17Case
    /\ last.obj.typ = "WpPresentationFeedback"
    /\ last.name = N_sync_output
    /\ HandlerName \notin DOMAIN MethodSet("*wpPresentationFeedback")
    /\ last.callable.kind = "none"
    /\ last.panic = "couldn't find method"

\* preferred_buffer_scale for a Surface: the field looked up keeps the
\* underscores
Wit_C17_field ==
    /\ C17Case
    /\ last.obj.typ = "Surface"
    /\ last.callable.kind = "field"
    /\ last.callable.name[12] = "_"
    /\ last.callable.name[13] = "b"

(***************************************************************************)
(* One-shot objects (SpecOneShot): Callback on done, WpPresentationFeedback *)
(* on presented and discarded.  No object is destroyed by the program, so  *)
(* a proxy leaves the registry through a one-shot handler only.            *)
(***************************************************************************)
\* Dispatch, with the record of the proxies a handler removed kept
DispatchOneShot ==
    /\ hnd
    /\ last = Idle
    /\ \E target \in Handles, ev \in Events :
        \E r \in {dispatcher(proxies, methods, callArgs, methName, target, ev)} :
            /\ proxies' = r.proxies
            /\ methods' = r.methods
            /\ callArgs' = r.callArgs
            /\ methName' = r.methName
            /\ last' = r.last
            /\ hist' = IF target \in DOMAIN proxies /\ target \notin DOMAIN r.proxies
                       THEN [hist EXCEPT ![target] =
                                [op |-> "forget", obj |-> NoObj, over |-> TRUE]]
                       ELSE hist
            /\ UNCHANGED <<hnd, resolved, ended, dec>>

NextOneShot ==
    \/ Feedback
    \/ Frame
    \/ SetCallback
    \/ DispatchOneShot
    \/ Return

SpecOneShot == Init /\ [][NextOneShot]_vars

\* a one-shot event for a registered object whose callback is set
OneShotCase ==
    /\ Dispatched
    /\ last.callable.kind = "method"
    /\ <<last.obj.typ, last.name>> \in
           {<<"Callback", N_done>>, <<"WpPresentationFeedback", N_presented>>,
            <<"WpPresentationFeedback", N_discarded>>}
    /\ last.obj.cb[UserField(last.callable.name)] # "nil"

\* a message for a proxy that a one-shot handler removed and that was not
\* added again
AfterOneShot ==
    /\ Dispatched
    /\ hist[last.target].op = "forget"
    /\ last.target \notin DOMAIN last.before

\* C18: for a one-shot object with its callback set, the user callback runs
\* while the proxy is registered, the proxy is removed before the dispatch
\* returns, and a later message for that proxy, with no add in between,
\* panics without calling anything.
Thm_C18 ==
    /\ OneShotCase =>
           /\ last.invoked
           /\ last.ret = "0"
           /\ Len(last.user) = 1
           /\ last.user[1].hnd = last.target
           /\ last.user[1].field = UserField(last.callable.name)
           /\ last.user[1].registered
           /\ last.target \in DOMAIN last.before
           /\ last.target \notin DOMAIN proxies
    /\ AfterOneShot =>
           /\ last.panic = "don't know this proxy"
           /\ last.ret = "panic"
           /\ ~last.invoked
           /\ last.user = <<>>

\* a message for a proxy whose object was removed by its one-shot handler,
\* while another object is registered
Wit_C18 ==
    /\ AfterOneShot
    /\ last.panic = "don't know this proxy"
    /\ DOMAIN proxies # {}

\* discarded reached a feedback object with OnDiscarded set
Wit_C18_discarded ==
    /\ OneShotCase
    /\ last.callable.name = M_Discarded
    /\ last.target \notin DOMAIN proxies

(***************************************************************************)
(* Unset callbacks and messages that cannot be decoded (SpecUnset).        *)
(***************************************************************************)
N_wm_capabilities == <<"w","m","_","c","a","p","a","b","i","l","i","t","i","e","s">>

\* XdgSurface.Toplevel
Toplevel ==
    \E h \in Handles \ DOMAIN proxies :
        Register(NewObj("XdgToplevel", h, NilCallbacks("XdgToplevel")))

\* preferred_buffer_scale with a signature of one tag the decoder panics on
EvScaleUnsupported(c) == Event(N_preferred_buffer_scale, <<c>>, <<Word(2)>>)

EvWmCapabilities == Event(N_wm_capabilities, <<"a">>, <<Array(<<1, 2>>)>>)

\* wm_capabilities with a null wl_array pointer in its slot
EvWmCapabilitiesNull == Event(N_wm_capabilities, <<"a">>, <<Null>>)

UnsetEvents ==
    {EvPreferredBufferScale, EvWmCapabilities, EvWmCapabilitiesNull}
    \cup {EvScaleUnsupported(c) : c \in {"n", "h", "x"}}

\* the transport's event loop calls the dispatcher for one of these events
DispatchUnset ==
    /\ hnd
    /\ last = Idle
    /\ \E target \in Handles, ev \in UnsetEvents :
        \E r \in {dispatcher(proxies, methods, callArgs, methName, target, ev)} :
            /\ proxies' = r.proxies
            /\ methods' = r.methods
            /\ callArgs' = r.callArgs
            /\ methName' = r.methName
            /\ last' = r.last
            /\ UNCHANGED <<hnd, hist, resolved, ended, dec>>

NextUnset ==
    \/ CreateSurface
    \/ Toplevel
    \/ SetCallback
    \/ DispatchUnset
    \/ Return

SpecUnset == Init /\ [][NextUnset]_vars

\* the resolved field of a field-callback object is nil
UnsetField ==
    /\ Dispatched
    /\ last.callable.kind = "field"
    /\ last.callable.fn = "nil"

\* the message has a tag the decoder panics on, or a null array pointer
FatalIfDecoded ==
    \/ \E p \in DOMAIN last.sig : Unsupp(last.sig[p])
    \/ \E k \in DOMAIN last.args :
           slotTags(last.sig)[k] = "a" /\ last.args[k] = Null

\* C19: the nil check comes before the decode loop.  With the resolved
\* field nil the dispatcher returns 0, reads no slot, builds no argument,
\* calls nothing and leaves the registry alone, whatever the signature and
\* the slots hold; the same messages panic when the field is set.
Thm_C19 ==
    /\ UnsetField =>
           /\ last.ret = "0"
           /\ last.panic = "none"
           /\ ~last.invoked
           /\ last.passed = <<>>
           /\ last.reads = <<>>
           /\ last.user = <<>>
           /\ proxies = last.before
    /\ (Dispatched /\ last.callable.kind = "field" /\ last.callable.fn # "nil"
        /\ FatalIfDecoded) =>
           /\ last.ret = "panic"
           /\ last.panic # "none"
           /\ ~last.invoked

\* a null array for an XdgToplevel whose OnWm_capabilities is nil
Wit_C19 ==
    /\ UnsetField
    /\ last.obj.typ = "XdgToplevel"
    /\ last.sig = <<"a">>
    /\ last.args = <<Null>>
    /\ last.ret = "0"

\* 'n' for a Surface whose field is nil
Wit_C19_n ==
    /\ UnsetField
    /\ last.sig = <<"n">>
    /\ last.ret = "0"

\* the null array panics when the field is set
Wit_C19_set ==
    /\ Dispatched
    /\ last.callable.kind = "field"
    /\ last.callable.fn = "fn"
    /\ last.args = <<Null>>
    /\ last.panic = "nil pointer dereference"

(***************************************************************************)
(* One resolution strategy per object type.                                *)
(***************************************************************************)
\* the object types that have an internal() method
InternalTypes == {"Callback", "WpPresentationFeedback"}

\* C20: an object with an internal representation is resolved through the
\* method set of that representation and never through its fields: one
\* cache lookup, at most one MethodByName, no FieldByName, and a name that
\* is no method panics without a second attempt.  An object without an
\* internal representation is resolved through FieldByName and never
\* through methods or the cache.
Thm_C20 ==
    C17Case =>
        IF last.obj.typ \in InternalTypes
        THEN /\ last.lookups \in {<<>>, <<"MethodByName">>}
             /\ last.callable.kind \in {"method", "none"}
             /\ HandlerName \notin DOMAIN MethodSet(internal(last.obj.typ)) =>
                    /\ last.lookups = <<"MethodByName">>
                    /\ last.callable.kind = "none"
                    /\ last.panic = "couldn't find method"
                    /\ last.ret = "panic"
                    /\ ~last.invoked
                    /\ last.user = <<>>
        ELSE /\ last.lookups = <<"FieldByName">>
             /\ ~last.hit
             /\ last.callable.kind \in {"field", "none"}
             /\ methods = [k \in DOMAIN methods \ {methodKey(last.obj.typ, HandlerName)}
                              |-> methods[k]]

\* presented for a Callback: no method Presented on *callback, a panic
\* after the one method lookup
Wit_C20 ==
    /\ C17Case
    /\ last.obj.typ = "Callback"
    /\ last.name = N_presented
    /\ last.lookups = <<"MethodByName">>
    /\ last.panic = "couldn't find method"

\* done for a Surface: no field OnDone, a panic after the one field lookup,
\* although the cache holds the method Done of *callback
Wit_C20_field ==
    /\ C17Case
    /\ last.obj.typ = "Surface"
    /\ last.name = N_done
    /\ last.panic = "couldn't find field"
    /\ methodKey("*callback", M_Done) \in DOMAIN methods

(***************************************************************************)
(* Objects that share a cache entry (SpecShared): every proxy is used for  *)
(* one object at most once removed, objects are not modified, and the      *)
(* dispatch that stored each cache entry is recorded.                      *)
(***************************************************************************)
\* Dispatch, with the record of the target whose dispatch stored each cache
\* entry and of the proxies a handler removed kept
DispatchShared ==
    /\ hnd
    /\ last = Idle
    /\ \E target \in Handles, ev \in Events :
        \E r \in {dispatcher(proxies, methods, callArgs, methName, target, ev)} :
            /\ proxies' = r.proxies
            /\ methods' = r.methods
            /\ callArgs' = r.callArgs
            /\ methName' = r.methName
            /\ last' = r.last
            /\ resolved' = resolved \cup
                   {<<k, target>> : k \in DOMAIN r.methods \ DOMAIN methods}
            /\ hist' = IF target \in DOMAIN proxies /\ target \notin DOMAIN r.proxies
                       THEN [hist EXCEPT ![target] =
                                [op |-> "forget", obj |-> NoObj,
                                 over |-> hist[target].op = "forget"]]
                       ELSE hist
            /\ UNCHANGED <<hnd, ended, dec>>

NextShared ==
    \/ Feedback
    \/ Frame
    \/ DispatchShared
    \/ Return

SpecShared == Init /\ [][NextShared]_vars

\* a delegated dispatch that found its method in the cache, where the entry
\* was stored by a dispatch to another proxy
SharedCase ==
    /\ Dispatched
    /\ last.callable.kind = "method"
    /\ last.hit
    /\ \E c \in resolved :
           /\ c[1] = methodKey(last.callable.typ, last.callable.name)
           /\ c[2] # last.target

\* C21: the cache is keyed by type and name, the receiver is the object of
\* the current message: a dispatch that hits an entry stored by a dispatch
\* to another object of the type has the target's object as receiver, runs
\* the target's user callback and, for a one-shot event, removes the
\* target's proxy and no other.
Thm_C21 ==
    SharedCase =>
        /\ last.obj = last.before[last.target]
        /\ last.callable.recv = <<GoVal(internal(last.obj.typ), last.obj)>>
        /\ last.passed # <<>> => last.passed[1] = last.callable.recv[1]
        /\ last.invoked =>
               /\ last.obj.cb[UserField(last.callable.name)] # "nil" =>
                      /\ Len(last.user) = 1
                      /\ last.user[1].hnd = last.target
                      /\ last.ret = "0"
               /\ last.ret = "0" =>
                      /\ DOMAIN proxies = DOMAIN last.before \ {last.target}
                      /\ \A h \in DOMAIN proxies : proxies[h] = last.before[h]
               /\ last.ret # "0" => proxies = last.before

\* done for the Callback B under proxy 2, the first object under that
\* proxy, with the method found in the cache; the entry was stored by a
\* dispatch to proxy 1, whose only object A, a Callback too, is still
\* registered with its binding
Wit_C21 ==
    /\ SharedCase
    /\ last.target = 2
    /\ last.obj.typ = "Callback"
    /\ last.ret = "0"
    /\ last.user # <<>>
    /\ hist[2] = [op |-> "forget", obj |-> NoObj, over |-> FALSE]
    /\ hist[1].op = "none"
    /\ <<methodKey("*callback", M_Done), 1>> \in resolved
    /\ DOMAIN proxies = {1}
    /\ proxies[1].typ = "Callback"

(***************************************************************************)
(* Dispatches that fail.                                                   *)
(***************************************************************************)
\* a dispatcher call for a target that is not in the registry
UnknownStep ==
    /\ last = Idle
    /\ last' # Idle
    /\ last'.target \notin DOMAIN proxies

\* C22: a dispatch for an unknown target panics and leaves the registry,
\* the method cache, the stored argument list and the name buffer as they
\* were before the call.
Thm_C22 ==
    [][UnknownStep =>
          /\ last'.panic = "don't know this proxy"
          /\ last'.ret = "panic"
          /\ UNCHANGED <<proxies, methods, callArgs, methName>>]_vars

\* a message for an unknown target while the registry and the cache are not
\* empty and the name buffer holds the name of an earlier message
Wit_C22 ==
    /\ Dispatched
    /\ last.obj = NoObj
    /\ last.panic = "don't know this proxy"
    /\ DOMAIN proxies # {}
    /\ DOMAIN methods # {}
    /\ Len(methName) > 0
    /\ \/ Len(methName) < Len(last.name)
       \/ SubSeq(methName, 1, Len(last.name)) # capitalize(last.name)

\* a delegated dispatch whose name is no method of the internal type
MethodMissingStep ==
    /\ last = Idle
    /\ last' # Idle
    /\ last'.panic = "couldn't find method"

\* the same message dispatched once more, in the state the failed dispatch
\* left
Repeat ==
    dispatcher(proxies', methods', callArgs', methName', last'.target,
               Event(last'.name, last'.sig, last'.args))

\* C23: a delegated dispatch that fails because the name is no method of
\* the internal type adds no cache entry for the key and leaves the cache
\* and the registry unchanged; the same message dispatched again fails the
\* same way, again without a change.
Thm_C23 ==
    [][MethodMissingStep =>
          /\ UNCHANGED <<proxies, methods, callArgs>>
          /\ methodKey(internal(last'.obj.typ), capitalize(last'.name))
                 \notin DOMAIN methods'
          /\ last'.lookups = <<"MethodByName">>
          /\ ~last'.invoked
          /\ Repeat.last.panic = "couldn't find method"
          /\ Repeat.last.lookups = <<"MethodByName">>
          /\ Repeat.proxies = proxies'
          /\ Repeat.methods = methods']_vars

\* presented for a Callback failed while the cache held other entries: the
\* key (*callback, Presented) is not in the cache
Wit_C23 ==
    /\ Dispatched
    /\ last.panic = "couldn't find method"
    /\ last.obj.typ = "Callback"
    /\ last.name = N_presented
    /\ methodKey("*callback", M_Done) \in DOMAIN methods
    /\ methodKey("*callback", M_Presented) \notin DOMAIN methods
    /\ proxies = last.before

(***************************************************************************)
(* Cache keys and the name buffer.                                         *)
(***************************************************************************)
\* every key carries the name of the method stored under it, and a lookup
\* by that name finds the entry
KeysOwnName ==
    \A k \in DOMAIN methods :
        /\ k[1] = methods[k].typ
        /\ k[2] = methods[k].name
        /\ cacheHit(methods, methods[k].typ, methods[k].name)

\* a delegated dispatch of a name whose key is in the cache
CachedNameStep ==
    /\ last = Idle
    /\ last' # Idle
    /\ last'.obj # NoObj
    /\ last'.obj.typ \in InternalTypes
    /\ methodKey(internal(last'.obj.typ), capitalize(last'.name)) \in DOMAIN methods

\* C24: the name in a cache key is a copy: whatever names later dispatches
\* write into the name buffer, every key keeps the name it was stored
\* under, and a dispatch of that name finds the entry without a new lookup
\* and resolves to its method.
Thm_C24 ==
    /\ []KeysOwnName
    /\ [][CachedNameStep =>
             /\ last'.hit
             /\ last'.lookups = <<>>
             /\ last'.callable.name = capitalize(last'.name)
             /\ last'.callable.In =
                    methods[methodKey(internal(last'.obj.typ),
                                      capitalize(last'.name))].In
             /\ methods' = methods]_vars

\* the cache holds the keys Done and Presented while the name buffer holds
\* Discarded, the name of a later message that failed to resolve
Wit_C24 ==
    /\ Dispatched
    /\ last.name = N_discarded
    /\ last.panic = "couldn't find method"
    /\ methName = M_Discarded
    /\ DOMAIN methods = {methodKey("*callback", M_Done),
                         methodKey("*wpPresentationFeedback", M_Presented)}

(***************************************************************************)
(* Removal of a proxy and the other bindings (SpecReentrant).              *)
(***************************************************************************)
\* a one-shot handler ran and returned
SelfRemoval ==
    /\ Dispatched
    /\ last.invoked
    /\ last.ret = "0"
    /\ <<last.obj.typ, last.name>> \in
           {<<"Callback", N_done>>, <<"WpPresentationFeedback", N_presented>>,
            <<"WpPresentationFeedback", N_discarded>>}

\* the user function the handler called
UserFn == last.obj.cb[UserField(last.callable.name)]

\* the user function created a Callback during the dispatch
AddedInDispatch ==
    /\ SelfRemoval
    /\ UserFn = "fnSync"
    /\ Handles \ DOMAIN last.before # {}

\* a Destroy call of the program
DestroyStep ==
    /\ last = Idle
    /\ last' = Idle
    /\ DOMAIN proxies' # DOMAIN proxies
    /\ DOMAIN proxies' \subseteq DOMAIN proxies

Wit_C25_other ==
    /\ SelfRemoval
    /\ last.target = 2
    /\ DOMAIN last.before = {1, 2}
    /\ DOMAIN proxies = {1}
    /\ proxies[1] = last.before[1]

(***************************************************************************)
(* Reachability of the declared callbacks.                                 *)
(***************************************************************************)
\* C26: the message sync_output, signature "o", for a registered
\* WpPresentationFeedback with OnSyncOutput set calls OnSyncOutput with the
\* decoded object reference and returns.
Claim_C26 ==
    ( /\ Dispatched
      /\ last.obj.typ = "WpPresentationFeedback"
      /\ last.name = N_sync_output
      /\ last.sig = <<"o">>
      /\ last.obj.cb[F_OnSyncOutput] = "fn" )
    => /\ last.invoked
       /\ last.ret = "0"
       /\ Len(last.user) = 1
       /\ last.user[1].field = F_OnSyncOutput

====
